---- MODULE Spec2Model ----
(***************************************************************************)
(* Model of internal/storage/storage.go: the transaction worker that       *)
(* Mongo.StartTx spawns, the channels of the Tx handle it serves and the   *)
(* callers that use those channels.                                        *)
(*                                                                         *)
(* A transaction t owns                                                    *)
(*   Ch        an unbuffered channel of operations (exported field),       *)
(*   commit    a channel of bool with capacity 1,                          *)
(*   rollback  a channel of bool with capacity 1,                          *)
(*   done      a channel of bool with capacity 1,                          *)
(*   Errs      the errgroup that runs the worker and keeps its error.      *)
(* The worker is the closure handed to tx.Errs.Go; pc[t] is its position.  *)
(***************************************************************************)
EXTENDS Integers, Sequences, FiniteSets, TLC

\* ---------------------------------------------------------------- bounds
NumProducers == 2      \* producers holding the handle of one transaction
MaxOps == 2            \* operations each producer submits
NumWaiters == 2        \* callers that receive from tx.done
MaxSignals == 2        \* values sent on tx.commit, and on tx.rollback
MaxLen == 3            \* parts of a connection descriptor
MaxStack == 3          \* frames the stack of a goroutine can hold
RecordsPerOp == 3      \* records of one upsert

\* capacity of the commit, rollback and done channels: make(chan bool, 1)
SignalCap == 1

\* Every StartTx call makes one transaction. OneTx is the transaction of the
\* specifications that follow a single handle.
TxIds == {1, 2}
OneTx == {1}
\* The producer of the specifications that give a transaction one producer.
SoleProducer == {1}
Producers == 1..NumProducers
Waiters == 1..NumWaiters
Ops == Producers \X (1..MaxOps)
NoOp == <<0, 0>>

VARIABLES
  pc,          \* position of the worker goroutine of each transaction
  inExec,      \* operations running against the session
  accepted,    \* operations in the order the worker received them
  executed,    \* operations in the order their execution finished
  prodSt,      \* producer: "idle", "sending" (blocked in tx.Ch <- fn), "panicked"
  prodNext,    \* index of the next operation of each producer
  chClosed,    \* tx.Ch has been closed
  commit,      \* buffer of tx.commit
  rollback,    \* buffer of tx.rollback
  done,        \* buffer of tx.done
  errs,        \* what the errgroup holds for the worker
  commitCalls, \* calls of sctx.CommitTransaction
  abortCalls,  \* calls of sctx.AbortTransaction
  abortFailed, \* sctx.AbortTransaction returned an error
  commitFailed,\* sctx.CommitTransaction returned an error
  doneFired,   \* sends on tx.done
  commitSent,  \* values sent on tx.commit so far
  rollbackSent,\* values sent on tx.rollback so far
  waitSt,      \* caller of <-tx.done: "idle", "waiting", "released"
  cancelled,   \* the context passed to StartTx has been cancelled
  handle,      \* StartTx has returned the Tx to its caller
  dns,         \* the descriptor handed to New
  resolved,    \* what New returned for dns
  closeSt,     \* Mongo.Close: "idle", "running", "returned", "overflow"
  closeDepth,  \* frames of Mongo.Close on the stack
  connected,   \* the *mongo.Client of the adapter is connected
  readRet,     \* Mongo.Read has returned
  rsp,         \* rsp.Records of the Read call
  readSaw      \* the records of the table when Read was called

vars == <<pc, inExec, accepted, executed, prodSt, prodNext, chClosed, commit,
          rollback, done, errs, commitCalls, abortCalls, abortFailed, commitFailed,
          doneFired, commitSent, rollbackSent, waitSt, cancelled, handle,
          dns, resolved, closeSt, closeDepth, connected, readRet, rsp,
          readSaw>>

adapterVars == <<dns, resolved, closeSt, closeDepth, connected, readRet, rsp,
                 readSaw>>

workerVars == <<pc, inExec, accepted, executed, errs, commitCalls,
                abortCalls, abortFailed, commitFailed, doneFired>>

\* ------------------------------------------------------------ the errgroup
Pending == [kind |-> "pending", op |-> NoOp]
Nil == [kind |-> "nil", op |-> NoOp]
ErrStart == [kind |-> "startErr", op |-> NoOp]
ErrCommit == [kind |-> "commitErr", op |-> NoOp]
ErrOp(op) == [kind |-> "opErr", op |-> op]

\* ------------------------------------------------------------ the resolver
MongoType == 0
PostgresType == 1

Scheme(t) ==
  CASE t = MongoType -> "mongodb"
    [] t = PostgresType -> "postgresql"
    [] OTHER -> "unknown"

\* A descriptor is a string; it is modelled as the sequence of its parts.
\* No part other than the two scheme tokens contains a token and no run of
\* parts spells one, so a token is a substring of the descriptor exactly
\* when it is one of its parts.
Atoms == {"mongodb", "postgresql", "redis", "://", "host"}
Descriptors == UNION {[1..n -> Atoms] : n \in 0..MaxLen}

\* strings.Contains(s, tok)
Contains(s, tok) == \E i \in 1..Len(s) : s[i] = tok

Unresolved == [ctor |-> "pending", adapter |-> "nil", err |-> "nil"]
Unsupported == [ctor |-> "none", adapter |-> "nil", err |-> "unsupported"]

\* NewMongo: mongo.Connect may fail, and then no adapter is returned.
NewMongo(uri, ok) ==
  IF ok THEN [ctor |-> "NewMongo", adapter |-> "Mongo", err |-> "nil"]
        ELSE [ctor |-> "NewMongo", adapter |-> "nil", err |-> "connect"]

\* NewPostgres: the relational adapter or the error of its construction.
NewPostgres(uri, ok) ==
  IF ok THEN [ctor |-> "NewPostgres", adapter |-> "Postgres", err |-> "nil"]
        ELSE [ctor |-> "NewPostgres", adapter |-> "nil", err |-> "connect"]

\* Type() of an adapter.
Type(a) ==
  CASE a = "Mongo" -> MongoType
    [] a = "Postgres" -> PostgresType

\* A New that tests the relational token first.
NewPostgresFirst(d, ok) ==
  IF Contains(d, Scheme(PostgresType)) THEN NewPostgres(d, ok)
  ELSE IF Contains(d, Scheme(MongoType)) THEN NewMongo(d, ok)
  ELSE Unsupported

\* New(ctx, dns); ok is the outcome of the constructor it calls.
New(d, ok) ==
  IF Contains(d, Scheme(MongoType)) THEN NewMongo(d, ok)
  ELSE IF Contains(d, Scheme(PostgresType)) THEN NewPostgres(d, ok)
  ELSE Unsupported

\* ------------------------------------------------------------- the backend
\* The records one operation upserts.
Records(op) == {<<op[1], op[2], k>> : k \in 1..RecordsPerOp}

\* Mongo.Upsert: one UpdateOne model per record with the record as filter
\* and as $set, upsert true, written in one BulkWrite: afterwards every
\* record of the request is in the collection once.
Upsert(tbl, recs) == tbl \cup recs

RECURSIVE Applied(_)
Applied(ops) ==
  IF ops = <<>> THEN {}
  ELSE Upsert(Applied(SubSeq(ops, 1, Len(ops) - 1)), Records(ops[Len(ops)]))

\* ------------------------------------------------------------------- Init
InitTx ==
  /\ pc = [t \in TxIds |-> "none"]
  /\ inExec = [t \in TxIds |-> {}]
  /\ accepted = [t \in TxIds |-> <<>>]
  /\ executed = [t \in TxIds |-> <<>>]
  /\ prodSt = [t \in TxIds |-> [p \in Producers |-> "idle"]]
  /\ prodNext = [t \in TxIds |-> [p \in Producers |-> 1]]
  /\ chClosed = [t \in TxIds |-> FALSE]
  /\ commit = [t \in TxIds |-> <<>>]
  /\ rollback = [t \in TxIds |-> <<>>]
  /\ done = [t \in TxIds |-> <<>>]
  /\ errs = [t \in TxIds |-> Pending]
  /\ commitCalls = [t \in TxIds |-> 0]
  /\ abortCalls = [t \in TxIds |-> 0]
  /\ abortFailed = [t \in TxIds |-> FALSE]
  /\ commitFailed = [t \in TxIds |-> FALSE]
  /\ doneFired = [t \in TxIds |-> 0]
  /\ commitSent = [t \in TxIds |-> 0]
  /\ rollbackSent = [t \in TxIds |-> 0]
  /\ waitSt = [t \in TxIds |-> [w \in Waiters |-> "idle"]]
  /\ cancelled = [t \in TxIds |-> FALSE]
  /\ handle = [t \in TxIds |-> FALSE]

\* The adapter NewMongo built from a mongodb descriptor.
InitAdapter ==
  /\ dns = <<"mongodb", "://", "host">>
  /\ resolved = NewMongo(dns, TRUE)
  /\ closeSt = "idle"
  /\ closeDepth = 0
  /\ connected = TRUE
  /\ readRet = FALSE
  /\ rsp = {}
  /\ readSaw = {}

Init == InitTx /\ InitAdapter

txVars == <<pc, inExec, accepted, executed, prodSt, prodNext, chClosed,
            commit, rollback, done, errs, commitCalls, abortCalls,
            abortFailed, commitFailed, doneFired, commitSent, rollbackSent,
            waitSt, cancelled, handle>>

\* ----------------------------------------------------------------- StartTx
\* A StartTx that runs the session on the caller's goroutine: the worker is
\* started but the call does not return the Tx.
StartTxSync(t) ==
  /\ pc[t] = "none"
  /\ pc' = [pc EXCEPT ![t] = "start"]
  /\ chClosed' = [chClosed EXCEPT ![t] = FALSE]
  /\ commit' = [commit EXCEPT ![t] = <<>>]
  /\ rollback' = [rollback EXCEPT ![t] = <<>>]
  /\ done' = [done EXCEPT ![t] = <<>>]
  /\ errs' = [errs EXCEPT ![t] = Pending]
  /\ UNCHANGED <<inExec, accepted, executed, prodSt, prodNext, commitCalls,
                 abortCalls, abortFailed, commitFailed, doneFired, commitSent,
                 rollbackSent, waitSt, cancelled, handle>>
  /\ UNCHANGED adapterVars

\* Builds the handle (fresh channels), derives the errgroup and spawns the
\* worker with tx.Errs.Go; it returns *tx without receiving from or sending
\* on any channel and without waiting for the worker.
StartTx(t) ==
  /\ pc[t] = "none"
  /\ pc' = [pc EXCEPT ![t] = "start"]
  /\ chClosed' = [chClosed EXCEPT ![t] = FALSE]
  /\ commit' = [commit EXCEPT ![t] = <<>>]
  /\ rollback' = [rollback EXCEPT ![t] = <<>>]
  /\ done' = [done EXCEPT ![t] = <<>>]
  /\ errs' = [errs EXCEPT ![t] = Pending]
  /\ handle' = [handle EXCEPT ![t] = TRUE]
  /\ UNCHANGED <<inExec, accepted, executed, prodSt, prodNext, commitCalls,
                 abortCalls, abortFailed, commitFailed, doneFired, commitSent,
                 rollbackSent, waitSt, cancelled>>
  /\ UNCHANGED adapterVars

\* ------------------------------------------------------------- the worker
\* sctx.StartTransaction(): on error the closure returns it.
WorkerStartTransaction(t) ==
  /\ pc[t] = "start"
  /\ \E ok \in BOOLEAN :
       IF ok
         THEN /\ pc' = [pc EXCEPT ![t] = "recv"]
              /\ errs' = errs
         ELSE /\ pc' = [pc EXCEPT ![t] = "returned"]
              /\ errs' = [errs EXCEPT ![t] = ErrStart]
  /\ UNCHANGED <<inExec, accepted, executed, prodSt, prodNext, chClosed,
                 commit, rollback, done, commitCalls, abortCalls, abortFailed, commitFailed,
                 doneFired, commitSent, rollbackSent, waitSt, cancelled, handle>>
  /\ UNCHANGED adapterVars

\* A worker that takes the next operation while one is still running.
WorkerRecvEager(t) ==
  /\ pc[t] \in {"recv", "exec"}
  /\ \E p \in Producers :
       /\ prodSt[t][p] = "sending"
       /\ inExec' = [inExec EXCEPT ![t] = @ \cup {<<p, prodNext[t][p]>>}]
       /\ accepted' = [accepted EXCEPT ![t] = Append(@, <<p, prodNext[t][p]>>)]
       /\ prodSt' = [prodSt EXCEPT ![t][p] = "idle"]
       /\ prodNext' = [prodNext EXCEPT ![t][p] = @ + 1]
  /\ pc' = [pc EXCEPT ![t] = "exec"]
  /\ UNCHANGED <<executed, chClosed, commit, rollback, done, errs,
                 commitCalls, abortCalls, abortFailed, commitFailed, doneFired, commitSent,
                 rollbackSent, waitSt, cancelled, handle>>
  /\ UNCHANGED adapterVars

\* A worker that receives from a channel kept on the adapter (m.txCh) and
\* shared by every transaction: it takes the operation of any producer.
WorkerRecvShared(t) ==
  /\ pc[t] = "recv"
  /\ \E u \in TxIds : \E p \in Producers :
       /\ prodSt[u][p] = "sending"
       /\ inExec' = [inExec EXCEPT ![t] = @ \cup {<<p, prodNext[u][p]>>}]
       /\ accepted' = [accepted EXCEPT ![t] = Append(@, <<p, prodNext[u][p]>>)]
       /\ prodSt' = [prodSt EXCEPT ![u][p] = "idle"]
       /\ prodNext' = [prodNext EXCEPT ![u][p] = @ + 1]
  /\ pc' = [pc EXCEPT ![t] = "exec"]
  /\ UNCHANGED <<executed, chClosed, commit, rollback, done, errs,
                 commitCalls, abortCalls, abortFailed, commitFailed,
                 doneFired, commitSent, rollbackSent, waitSt, cancelled,
                 handle>>
  /\ UNCHANGED adapterVars

\* for fn := range tx.Ch: the rendezvous with one producer blocked in its
\* send; the producer's send completes and the worker holds fn.
WorkerRecv(t) ==
  /\ pc[t] = "recv"
  /\ \E p \in Producers :
       /\ prodSt[t][p] = "sending"
       /\ inExec' = [inExec EXCEPT ![t] = @ \cup {<<p, prodNext[t][p]>>}]
       /\ accepted' = [accepted EXCEPT ![t] = Append(@, <<p, prodNext[t][p]>>)]
       /\ prodSt' = [prodSt EXCEPT ![t][p] = "idle"]
       /\ prodNext' = [prodNext EXCEPT ![t][p] = @ + 1]
  /\ pc' = [pc EXCEPT ![t] = "exec"]
  /\ UNCHANGED <<executed, chClosed, commit, rollback, done, errs,
                 commitCalls, abortCalls, abortFailed, commitFailed, doneFired, commitSent,
                 rollbackSent, waitSt, cancelled, handle>>
  /\ UNCHANGED adapterVars

\* A worker that starts fn and goes back to the channel without waiting
\* for it (go fn(sctx)).
WorkerExecAsync(t) ==
  /\ pc[t] = "exec"
  /\ pc' = [pc EXCEPT ![t] = "recv"]
  /\ UNCHANGED <<inExec, accepted, executed, errs, prodSt, prodNext, chClosed,
                 commit, rollback, done, commitCalls, abortCalls, abortFailed, commitFailed,
                 doneFired, commitSent, rollbackSent, waitSt, cancelled, handle>>
  /\ UNCHANGED adapterVars

\* A worker that records the error of fn and goes on with the loop.
WorkerExecKeepGoing(t) ==
  /\ pc[t] = "exec"
  /\ \E op \in inExec[t], ok \in BOOLEAN :
       /\ inExec' = [inExec EXCEPT ![t] = @ \ {op}]
       /\ executed' = [executed EXCEPT ![t] = Append(@, op)]
       /\ errs' = IF ok THEN errs ELSE [errs EXCEPT ![t] = ErrOp(op)]
  /\ pc' = [pc EXCEPT ![t] = "recv"]
  /\ UNCHANGED <<accepted, prodSt, prodNext, chClosed, commit, rollback, done,
                 commitCalls, abortCalls, abortFailed, commitFailed, doneFired, commitSent,
                 rollbackSent, waitSt, cancelled, handle>>
  /\ UNCHANGED adapterVars

\* if err := fn(sctx); err != nil { return err }: fn runs to its end on the
\* worker's goroutine; on error the closure returns that error at once.
WorkerExec(t) ==
  /\ pc[t] = "exec"
  /\ \E op \in inExec[t], ok \in BOOLEAN :
       /\ inExec' = [inExec EXCEPT ![t] = @ \ {op}]
       /\ executed' = [executed EXCEPT ![t] = Append(@, op)]
       /\ IF ok
            THEN /\ pc' = [pc EXCEPT ![t] = "recv"]
                 /\ errs' = errs
            ELSE /\ pc' = [pc EXCEPT ![t] = "returned"]
                 /\ errs' = [errs EXCEPT ![t] = ErrOp(op)]
  /\ UNCHANGED <<accepted, prodSt, prodNext, chClosed, commit, rollback, done,
                 commitCalls, abortCalls, abortFailed, commitFailed, doneFired, commitSent,
                 rollbackSent, waitSt, cancelled, handle>>
  /\ UNCHANGED adapterVars

\* A worker that selects on tx.Ch and tx.commit: a buffered commit signal
\* ends the loop while tx.Ch is still open.
WorkerChClosedOrSignal(t) ==
  /\ pc[t] = "recv"
  /\ chClosed[t] \/ Len(commit[t]) > 0
  /\ pc' = [pc EXCEPT ![t] = "awaitCommit"]
  /\ UNCHANGED <<inExec, accepted, executed, prodSt, prodNext, chClosed,
                 commit, rollback, done, errs, commitCalls, abortCalls,
                 abortFailed, commitFailed, doneFired, commitSent, rollbackSent, waitSt,
                 cancelled, handle>>
  /\ UNCHANGED adapterVars

\* A worker that leaves the loop as soon as tx.Ch is closed, also while fn
\* is still running.
WorkerChClosedEarly(t) ==
  /\ pc[t] \in {"recv", "exec"}
  /\ chClosed[t]
  /\ pc' = [pc EXCEPT ![t] = "awaitCommit"]
  /\ UNCHANGED <<inExec, accepted, executed, prodSt, prodNext, chClosed,
                 commit, rollback, done, errs, commitCalls, abortCalls,
                 abortFailed, commitFailed, doneFired, commitSent,
                 rollbackSent, waitSt, cancelled, handle>>
  /\ UNCHANGED adapterVars

\* The range loop ends when tx.Ch is closed (an unbuffered channel holds
\* nothing to drain).
WorkerChClosed(t) ==
  /\ pc[t] = "recv"
  /\ chClosed[t]
  /\ pc' = [pc EXCEPT ![t] = "awaitCommit"]
  /\ UNCHANGED <<inExec, accepted, executed, prodSt, prodNext, chClosed,
                 commit, rollback, done, errs, commitCalls, abortCalls,
                 abortFailed, commitFailed, doneFired, commitSent, rollbackSent, waitSt,
                 cancelled, handle>>
  /\ UNCHANGED adapterVars

\* switch { case <-tx.commit: ... }: an expression switch without a tag. The
\* first case expression is a blocking receive from tx.commit; the case is
\* taken when the received value is true, otherwise the next case
\* expression is evaluated.
WorkerRecvCommit(t) ==
  /\ pc[t] = "awaitCommit"
  /\ Len(commit[t]) > 0
  /\ pc' = [pc EXCEPT ![t] = IF Head(commit[t]) THEN "commit" ELSE "awaitRollback"]
  /\ commit' = [commit EXCEPT ![t] = Tail(@)]
  /\ UNCHANGED <<inExec, accepted, executed, prodSt, prodNext, chClosed,
                 rollback, done, errs, commitCalls, abortCalls, abortFailed, commitFailed,
                 doneFired, commitSent, rollbackSent, waitSt, cancelled, handle>>
  /\ UNCHANGED adapterVars

\* case <-tx.rollback: a blocking receive from tx.rollback, evaluated only
\* after tx.commit delivered false; with false here too no case is taken.
WorkerRecvRollback(t) ==
  /\ pc[t] = "awaitRollback"
  /\ Len(rollback[t]) > 0
  /\ pc' = [pc EXCEPT ![t] = IF Head(rollback[t]) THEN "abort" ELSE "sendDone"]
  /\ rollback' = [rollback EXCEPT ![t] = Tail(@)]
  /\ UNCHANGED <<inExec, accepted, executed, prodSt, prodNext, chClosed,
                 commit, done, errs, commitCalls, abortCalls, abortFailed, commitFailed,
                 doneFired, commitSent, rollbackSent, waitSt, cancelled, handle>>
  /\ UNCHANGED adapterVars

\* A switch whose commit case falls through into the rollback case.
WorkerCommitFallthrough(t) ==
  /\ pc[t] = "commit"
  /\ commitCalls' = [commitCalls EXCEPT ![t] = @ + 1]
  /\ \E ok \in BOOLEAN :
       IF ok
         THEN /\ pc' = [pc EXCEPT ![t] = "abort"]
              /\ errs' = errs
              /\ commitFailed' = commitFailed
         ELSE /\ pc' = [pc EXCEPT ![t] = "returned"]
              /\ errs' = [errs EXCEPT ![t] = ErrCommit]
              /\ commitFailed' = [commitFailed EXCEPT ![t] = TRUE]
  /\ UNCHANGED <<inExec, accepted, executed, prodSt, prodNext, chClosed,
                 commit, rollback, done, abortCalls, abortFailed, doneFired,
                 commitSent, rollbackSent, waitSt, cancelled, handle>>
  /\ UNCHANGED adapterVars

\* A worker that drops the error of the commit, as it does for the abort.
WorkerCommitSwallow(t) ==
  /\ pc[t] = "commit"
  /\ commitCalls' = [commitCalls EXCEPT ![t] = @ + 1]
  /\ \E ok \in BOOLEAN : commitFailed' = [commitFailed EXCEPT ![t] = ~ok]
  /\ pc' = [pc EXCEPT ![t] = "sendDone"]
  /\ UNCHANGED <<inExec, accepted, executed, prodSt, prodNext, chClosed,
                 commit, rollback, done, errs, abortCalls, abortFailed,
                 doneFired, commitSent, rollbackSent, waitSt, cancelled,
                 handle>>
  /\ UNCHANGED adapterVars

\* sctx.CommitTransaction(sctx): on error the closure returns it, and the
\* send on tx.done is skipped.
WorkerCommit(t) ==
  /\ pc[t] = "commit"
  /\ commitCalls' = [commitCalls EXCEPT ![t] = @ + 1]
  /\ \E ok \in BOOLEAN :
       IF ok
         THEN /\ pc' = [pc EXCEPT ![t] = "sendDone"]
              /\ errs' = errs
              /\ commitFailed' = commitFailed
         ELSE /\ pc' = [pc EXCEPT ![t] = "returned"]
              /\ errs' = [errs EXCEPT ![t] = ErrCommit]
              /\ commitFailed' = [commitFailed EXCEPT ![t] = TRUE]
  /\ UNCHANGED <<inExec, accepted, executed, prodSt, prodNext, chClosed,
                 commit, rollback, done, abortCalls, abortFailed, doneFired,
                 commitSent, rollbackSent, waitSt, cancelled, handle>>
  /\ UNCHANGED adapterVars

\* sctx.AbortTransaction(sctx): the returned error is dropped.
WorkerAbort(t) ==
  /\ pc[t] = "abort"
  /\ abortCalls' = [abortCalls EXCEPT ![t] = @ + 1]
  /\ \E ok \in BOOLEAN : abortFailed' = [abortFailed EXCEPT ![t] = ~ok]
  /\ pc' = [pc EXCEPT ![t] = "sendDone"]
  /\ UNCHANGED <<inExec, accepted, executed, prodSt, prodNext, chClosed,
                 commit, rollback, done, errs, commitCalls, commitFailed,
                 doneFired,
                 commitSent, rollbackSent, waitSt, cancelled, handle>>
  /\ UNCHANGED adapterVars

\* tx.done <- true; return nil
WorkerSendDone(t) ==
  /\ pc[t] = "sendDone"
  /\ Len(done[t]) < SignalCap
  /\ done' = [done EXCEPT ![t] = Append(@, TRUE)]
  /\ doneFired' = [doneFired EXCEPT ![t] = @ + 1]
  /\ pc' = [pc EXCEPT ![t] = "returned"]
  /\ errs' = [errs EXCEPT ![t] = Nil]
  /\ UNCHANGED <<inExec, accepted, executed, prodSt, prodNext, chClosed,
                 commit, rollback, commitCalls, abortCalls, abortFailed, commitFailed,
                 commitSent, rollbackSent, waitSt, cancelled, handle>>
  /\ UNCHANGED adapterVars

Worker(t) ==
  \/ WorkerStartTransaction(t)
  \/ WorkerRecv(t)
  \/ WorkerExec(t)
  \/ WorkerChClosed(t)
  \/ WorkerRecvCommit(t)
  \/ WorkerRecvRollback(t)
  \/ WorkerCommit(t)
  \/ WorkerAbort(t)
  \/ WorkerSendDone(t)

\* ------------------------------------------------------------ the callers
\* Any goroutine may hold the handle StartTx returned. Its steps are the Go
\* channel operations on the channels StartTx made: a send on the
\* unbuffered tx.Ch completes only in a rendezvous with the worker's
\* receive, a send on a channel of capacity 1 completes while the buffer
\* has room, a receive completes while the buffer holds a value.
\* tx.Ch <- fn by producer p: the send blocks until the worker receives;
\* a send on a closed channel panics.
ProducerSend(t, p) ==
  /\ handle[t]
  /\ prodSt[t][p] = "idle"
  /\ prodNext[t][p] <= MaxOps
  /\ prodSt' = [prodSt EXCEPT ![t][p] = IF chClosed[t] THEN "panicked" ELSE "sending"]
  /\ UNCHANGED <<workerVars, prodNext, chClosed, commit, rollback, done,
                 commitSent, rollbackSent, waitSt, cancelled, handle>>
  /\ UNCHANGED adapterVars

\* close(tx.Ch): every sender blocked on the channel panics. (A second
\* close would panic the closer; the callers close at most once.)
CloseCh(t) ==
  /\ handle[t]
  /\ ~chClosed[t]
  /\ chClosed' = [chClosed EXCEPT ![t] = TRUE]
  /\ prodSt' = [prodSt EXCEPT ![t] =
                  [p \in Producers |-> IF @[p] = "sending" THEN "panicked" ELSE @[p]]]
  /\ UNCHANGED <<workerVars, prodNext, commit, rollback, done, commitSent,
                 rollbackSent, waitSt, cancelled, handle>>
  /\ UNCHANGED adapterVars

\* tx.commit <- v: proceeds while the buffer has room.
SignalCommit(t, v) ==
  /\ handle[t]
  /\ commitSent[t] < MaxSignals
  /\ Len(commit[t]) < SignalCap
  /\ commit' = [commit EXCEPT ![t] = Append(@, v)]
  /\ commitSent' = [commitSent EXCEPT ![t] = @ + 1]
  /\ UNCHANGED <<workerVars, prodSt, prodNext, chClosed, rollback, done,
                 rollbackSent, waitSt, cancelled, handle>>
  /\ UNCHANGED adapterVars

\* tx.rollback <- v: proceeds while the buffer has room.
SignalRollback(t, v) ==
  /\ handle[t]
  /\ rollbackSent[t] < MaxSignals
  /\ Len(rollback[t]) < SignalCap
  /\ rollback' = [rollback EXCEPT ![t] = Append(@, v)]
  /\ rollbackSent' = [rollbackSent EXCEPT ![t] = @ + 1]
  /\ UNCHANGED <<workerVars, prodSt, prodNext, chClosed, commit, done,
                 commitSent, waitSt, cancelled, handle>>
  /\ UNCHANGED adapterVars

\* A caller starts <-tx.done.
AwaitDone(t, w) ==
  /\ handle[t]
  /\ waitSt[t][w] = "idle"
  /\ waitSt' = [waitSt EXCEPT ![t][w] = "waiting"]
  /\ UNCHANGED <<workerVars, prodSt, prodNext, chClosed, commit, rollback,
                 done, commitSent, rollbackSent, cancelled, handle>>
  /\ UNCHANGED adapterVars

\* <-tx.done completes: the receive takes the one buffered value.
RecvDone(t, w) ==
  /\ waitSt[t][w] = "waiting"
  /\ Len(done[t]) > 0
  /\ done' = [done EXCEPT ![t] = Tail(@)]
  /\ waitSt' = [waitSt EXCEPT ![t][w] = "released"]
  /\ UNCHANGED <<workerVars, prodSt, prodNext, chClosed, commit, rollback,
                 commitSent, rollbackSent, cancelled, handle>>
  /\ UNCHANGED adapterVars

\* The context passed to StartTx is cancelled. The worker selects on no
\* ctx.Done(), and the handle holds no context.
Cancel(t) ==
  /\ handle[t]
  /\ ~cancelled[t]
  /\ cancelled' = [cancelled EXCEPT ![t] = TRUE]
  /\ UNCHANGED <<workerVars, prodSt, prodNext, chClosed, commit, rollback,
                 done, commitSent, rollbackSent, waitSt, handle>>
  /\ UNCHANGED adapterVars

\* The worker, the producers and the callers that signal.
Next ==
  \E t \in OneTx :
    \/ StartTx(t)
    \/ Worker(t)
    \/ \E p \in Producers : ProducerSend(t, p)
    \/ CloseCh(t)
    \/ \E v \in BOOLEAN : SignalCommit(t, v)
    \/ \E v \in BOOLEAN : SignalRollback(t, v)

Spec == Init /\ [][Next]_vars

\* The Go scheduler runs every goroutine that can take a step: the worker
\* takes its next step whenever it is not blocked.
FairSpec == Spec /\ \A t \in TxIds : WF_vars(Worker(t))

\* The same with the callers that await completion and the cancellation of
\* the context.
NextAwait ==
  \/ Next
  \/ \E t \in OneTx :
       \/ \E w \in Waiters : AwaitDone(t, w)
       \/ \E w \in Waiters : RecvDone(t, w)
       \/ Cancel(t)

AwaitSpec == Init /\ [][NextAwait]_vars

\* A caller whose receive from tx.done can complete does complete it.
FairAwaitSpec ==
  /\ AwaitSpec
  /\ \A t \in TxIds : WF_vars(Worker(t))
  /\ \A t \in TxIds : \A w \in Waiters : WF_vars(RecvDone(t, w))

\* One transaction with one producer: the worker, its work channel and the
\* two signals.
NextSignal ==
  \E t \in OneTx :
    \/ StartTx(t)
    \/ Worker(t)
    \/ \E p \in SoleProducer : ProducerSend(t, p)
    \/ CloseCh(t)
    \/ \E v \in BOOLEAN : SignalCommit(t, v)
    \/ \E v \in BOOLEAN : SignalRollback(t, v)

FairSignalSpec ==
  /\ Init /\ [][NextSignal]_vars
  /\ \A t \in OneTx : WF_vars(Worker(t))

\* Two StartTx calls on the same adapter: two handles, two workers, each
\* with one producer and its own callers that close and signal.
NextTwo ==
  \E t \in TxIds :
    \/ StartTx(t)
    \/ Worker(t)
    \/ \E p \in SoleProducer : ProducerSend(t, p)
    \/ CloseCh(t)
    \/ \E v \in BOOLEAN : SignalCommit(t, v)
    \/ \E v \in BOOLEAN : SignalRollback(t, v)

TwoSpec == Init /\ [][NextTwo]_vars

\* ------------------------------------------------------------ New(ctx, dns)
\* Before New is called: any descriptor, nothing built.
ResolveInit ==
  /\ InitTx
  /\ dns \in Descriptors
  /\ resolved = Unresolved
  /\ closeSt = "idle"
  /\ closeDepth = 0
  /\ connected = FALSE
  /\ readRet = FALSE
  /\ rsp = {}
  /\ readSaw = {}

Resolve ==
  /\ resolved = Unresolved
  /\ \E ok \in BOOLEAN :
       /\ resolved' = New(dns, ok)
       /\ connected' = (resolved'.adapter # "nil")
  /\ UNCHANGED <<txVars, dns, closeSt, closeDepth, readRet, rsp, readSaw>>

ResolveSpec == ResolveInit /\ [][Resolve]_vars

\* ------------------------------------------------------------- Mongo.Close
\* A caller calls m.Close().
MongoClose ==
  /\ closeSt = "idle"
  /\ closeSt' = "running"
  /\ closeDepth' = 1
  /\ UNCHANGED <<txVars, dns, resolved, connected, readRet, rsp, readSaw>>

\* The body of Mongo.Close is the one statement m.Close(): the method set of
\* *Mongo resolves it to Mongo.Close itself, so the body is another call of
\* the same method and nothing else; the client is not disconnected and no
\* frame returns. When the stack is full the runtime ends the process.
MongoCloseBody ==
  /\ closeSt = "running"
  /\ IF closeDepth < MaxStack
       THEN /\ closeDepth' = closeDepth + 1
            /\ closeSt' = closeSt
       ELSE /\ closeDepth' = closeDepth
            /\ closeSt' = "overflow"
  /\ UNCHANGED <<txVars, dns, resolved, connected, readRet, rsp, readSaw>>

NextClose == Next \/ MongoClose \/ MongoCloseBody

CloseSpec == Init /\ [][NextClose]_vars

\* The goroutine that called Close keeps running.
FairCloseSpec == CloseSpec /\ WF_vars(MongoCloseBody)

\* -------------------------------------------------------------- Mongo.Read
\* A transaction is committed once CommitTransaction has returned nil.
Committed(t) ==
  /\ commitCalls[t] = 1
  /\ ~commitFailed[t]
  /\ pc[t] \in {"sendDone", "returned"}

\* The records of table T: what the committed transactions upserted.
Table ==
  UNION {IF Committed(t) THEN Applied(executed[t]) ELSE {} : t \in TxIds}

\* Mongo.Read: the whole body is commented out; it returns nil and leaves
\* rsp as the caller passed it.
MongoRead ==
  /\ ~readRet
  /\ readRet' = TRUE
  /\ rsp' = rsp
  /\ readSaw' = Table
  /\ UNCHANGED <<txVars, dns, resolved, closeSt, closeDepth, connected>>

NextRead == Next \/ MongoRead

ReadSpec == Init /\ [][NextRead]_vars

\* ======================================================== properties
Active == {"recv", "exec"}

IsPrefix(s, r) ==
  /\ Len(s) <= Len(r)
  /\ \A i \in 1..Len(s) : s[i] = r[i]

\* Each producer's operations appear in s in that producer's own order.
ProducerOrder(s) ==
  \A i, j \in 1..Len(s) :
    (i < j /\ s[i][1] = s[j][1]) => s[i][2] < s[j][2]

\* C1: at most one operation runs against the session at any time, and an
\* operation runs only while the worker is in its execute step: the worker
\* is back at the channel only when nothing is running.
C1_OneAtATime ==
  \A t \in TxIds :
    /\ Cardinality(inExec[t]) <= 1
    /\ (pc[t] # "exec" => inExec[t] = {})

\* One operation is running while another producer is blocked in its send
\* and an earlier operation has already been executed.
C1_Witness ==
  \E t \in TxIds : \E p \in Producers :
    /\ prodSt[t][p] = "sending"
    /\ Cardinality(inExec[t]) = 1
    /\ Len(executed[t]) >= 1

\* C2: the operations are executed in one order, which is the order in which
\* the worker accepted them, and that order keeps each producer's own
\* submission order.
C2_Fifo ==
  \A t \in TxIds :
    /\ IsPrefix(executed[t], accepted[t])
    /\ Len(accepted[t]) <= Len(executed[t]) + 1
    /\ ProducerOrder(accepted[t])
    /\ ProducerOrder(executed[t])

\* Three operations of two producers executed, interleaved.
C2_Witness ==
  \E t \in TxIds :
    /\ Len(executed[t]) >= 3
    /\ executed[t][1][1] # executed[t][2][1]
    /\ executed[t][1][1] = executed[t][3][1]

\* C3 (as claimed): a worker that has invoked the commit or the abort
\* primitive and has returned has sent on tx.done exactly once, whether the
\* primitive succeeded or failed.
C3_DoneOnEveryTerminalPath ==
  \A t \in TxIds :
    (pc[t] = "returned" /\ commitCalls[t] + abortCalls[t] >= 1)
      => doneFired[t] = 1

\* C4: once an operation has failed the worker has returned that
\* operation's error; the failing operation is the last one accepted and
\* the last one executed, and neither the commit primitive, the abort
\* primitive nor the send on tx.done has happened, whatever signals wait.
C4_AbortOnFirstFailure ==
  \A t \in TxIds :
    errs[t].kind = "opErr" =>
      /\ pc[t] = "returned"
      /\ inExec[t] = {}
      /\ accepted[t] = executed[t]
      /\ executed[t][Len(executed[t])] = errs[t].op
      /\ commitCalls[t] = 0
      /\ abortCalls[t] = 0
      /\ doneFired[t] = 0

\* The second operation failed while a commit signal is buffered and
\* another producer is blocked submitting a later operation.
C4_Witness ==
  \E t \in TxIds : \E p \in Producers :
    /\ errs[t].kind = "opErr"
    /\ Len(executed[t]) >= 2
    /\ Len(commit[t]) > 0
    /\ prodSt[t][p] = "sending"

\* C5: whatever values are sent on tx.commit and tx.rollback, and however
\* often, the commit and abort primitives are invoked at most once in
\* total.
C5_AtMostOneTerminal ==
  \A t \in TxIds : commitCalls[t] + abortCalls[t] <= 1

\* Commit was signalled twice and rollback once; one primitive ran.
C5_Witness ==
  \E t \in TxIds :
    /\ commitSent[t] >= 2
    /\ rollbackSent[t] >= 1
    /\ commitCalls[t] + abortCalls[t] = 1
    /\ pc[t] = "returned"

\* C6 (as claimed): the work channel is closed and idle, a rollback signal
\* is buffered and no commit signal was sent; then, unless a commit signal
\* is sent after all, the worker aborts, sends on tx.done and returns.
C6_RollbackAloneReachesDone ==
  \A t \in TxIds :
    (/\ chClosed[t]
     /\ pc[t] \in {"recv", "awaitCommit"}
     /\ rollback[t] = <<TRUE>>
     /\ commitSent[t] = 0)
      ~> (\/ commitSent[t] > 0
          \/ (abortCalls[t] = 1 /\ doneFired[t] = 1 /\ pc[t] = "returned"))

C8_SubmitAfterExitReturns ==
  \A t \in TxIds : \A p \in Producers :
    (pc[t] = "returned" /\ prodSt[t][p] = "sending")
      ~> (prodSt[t][p] # "sending")

\* C9 (as claimed): the context is cancelled while the worker is in its
\* loop and a producer is blocked in its send or a caller in its receive
\* from tx.done; then a state is reached in which none of them is blocked.
C9_CancelUnblocks ==
  \A t \in TxIds :
    (/\ cancelled[t]
     /\ pc[t] \in Active
     /\ \/ \E p \in Producers : prodSt[t][p] = "sending"
        \/ \E w \in Waiters : waitSt[t][w] = "waiting")
      ~> (/\ \A p \in Producers : prodSt[t][p] # "sending"
          /\ \A w \in Waiters : waitSt[t][w] # "waiting")

\* C10 (as claimed): the worker has sent on tx.done while every caller is
\* waiting on it; then all of them are released.
C10_AllWaitersReleased ==
  \A t \in TxIds :
    (doneFired[t] = 1 /\ \A w \in Waiters : waitSt[t][w] = "waiting")
      ~> (\A w \in Waiters : waitSt[t][w] = "released")

\* C11: when the commit primitive has failed, the worker has returned the
\* commit error (the errgroup holds it), every accepted operation had
\* succeeded before, tx.done was not sent, and the commit primitive was
\* called once only: no retry.
C11_CommitErrorIsTerminal ==
  \A t \in TxIds :
    commitFailed[t] =>
      /\ pc[t] = "returned"
      /\ errs[t] = ErrCommit
      /\ commitCalls[t] = 1
      /\ abortCalls[t] = 0
      /\ accepted[t] = executed[t]

\* The commit failed after two operations had been executed.
C11_Witness ==
  \E t \in TxIds :
    /\ commitFailed[t]
    /\ Len(executed[t]) >= 2
    /\ errs[t].kind = "commitErr"

\* C12 (as claimed): when the abort primitive has failed and the worker has
\* returned, the error the errgroup holds for the worker is not success.
C12_AbortErrorReported ==
  \A t \in TxIds :
    (abortFailed[t] /\ pc[t] = "returned") => errs[t] # Nil

\* C13: whenever the worker of a transaction has been spawned, StartTx has
\* returned the handle, wherever the worker stands and whatever the
\* channels hold.
C13_StartTxReturns ==
  \A t \in TxIds : pc[t] # "none" => handle[t]

\* The handle has been returned while the worker waits at the work channel,
\* no producer has submitted and no signal has been sent.
C13_Witness ==
  \E t \in TxIds :
    /\ handle[t]
    /\ pc[t] = "recv"
    /\ accepted[t] = <<>>
    /\ \A p \in Producers : prodSt[t][p] = "idle"
    /\ commitSent[t] = 0
    /\ rollbackSent[t] = 0
    /\ ~chClosed[t]

\* C17: once the commit or the abort primitive has been invoked, the worker
\* is out of its loop for good, nothing is running, every accepted
\* operation has finished, none of them failed, and the work channel was
\* closed before.
C17_DrainBeforeCommit ==
  \A t \in TxIds :
    commitCalls[t] + abortCalls[t] >= 1 =>
      /\ pc[t] \notin Active
      /\ inExec[t] = {}
      /\ accepted[t] = executed[t]
      /\ errs[t].kind # "opErr"
      /\ chClosed[t]

\* The commit primitive was invoked after three operations were executed.
C17_Witness ==
  \E t \in TxIds :
    /\ commitCalls[t] = 1
    /\ Len(executed[t]) >= 3
    /\ Len(accepted[t]) = Len(executed[t])

\* C19 (as claimed): when tx.done has fired, exactly one of the commit and
\* abort primitives was invoked, whatever values arrived on tx.commit and
\* tx.rollback.
C19_DoneImpliesTerminal ==
  \A t \in TxIds :
    doneFired[t] >= 1 => commitCalls[t] + abortCalls[t] = 1

\* Everything that belongs to transaction t.
TxState(t) ==
  <<pc[t], inExec[t], accepted[t], executed[t], prodSt[t], prodNext[t],
    chClosed[t], commit[t], rollback[t], done[t], errs[t], commitCalls[t],
    abortCalls[t], abortFailed[t], commitFailed[t], doneFired[t],
    commitSent[t], rollbackSent[t], waitSt[t], cancelled[t], handle[t]>>

\* The operations worker t accepted are the ones whose sends the producers
\* of t completed.
OwnOpsOnly(t) ==
  \A p \in Producers :
    Cardinality({i \in 1..Len(accepted[t]) : accepted[t][i][1] = p})
      = prodNext[t][p] - 1

\* C20: two transactions of one adapter are independent. A worker accepts
\* (and so executes) only operations submitted to its own transaction, and
\* every step, be it a commit, a rollback, an operation failure or a
\* send on tx.done, changes the state of one transaction and leaves the
\* other's untouched.
C20_Independent ==
  /\ [](\A t \in TxIds : OwnOpsOnly(t))
  /\ [][\A t, u \in TxIds :
          (t # u /\ TxState(t)' # TxState(t)) => TxState(u)' = TxState(u)]_vars

\* One transaction has committed and fired tx.done while the other, which
\* has executed an operation, is still in its loop and has fired nothing.
C20_Witness ==
  \E t, u \in TxIds :
    /\ t # u
    /\ pc[t] = "returned" /\ doneFired[t] = 1 /\ commitCalls[t] = 1
    /\ pc[u] \in Active /\ doneFired[u] = 0 /\ Len(executed[u]) >= 1
    /\ Len(executed[t]) >= 1

\* The scheme of a descriptor: what stands before "://".
DescriptorScheme(d) ==
  IF Len(d) >= 2 /\ d[2] = "://" THEN d[1] ELSE "none"

\* The descriptor has the form scheme://rest.
HasScheme(d) == Len(d) >= 3 /\ d[2] = "://" /\ d[1] # "://"

\* C14 (as claimed): after New, a descriptor of scheme mongodb has gone to
\* the document-store constructor and an adapter it built has type
\* MongoType; a descriptor of scheme postgresql has gone to the relational
\* constructor and an adapter it built has type PostgresType; for every
\* other scheme New returned the unsupported error and called no
\* constructor.
C14_ResolvesByScheme ==
  (resolved # Unresolved /\ HasScheme(dns)) =>
    /\ DescriptorScheme(dns) = "mongodb" =>
         /\ resolved.ctor = "NewMongo"
         /\ (resolved.adapter # "nil" => Type(resolved.adapter) = MongoType)
    /\ DescriptorScheme(dns) = "postgresql" =>
         /\ resolved.ctor = "NewPostgres"
         /\ (resolved.adapter # "nil" => Type(resolved.adapter) = PostgresType)
    /\ DescriptorScheme(dns) \notin {"mongodb", "postgresql"} =>
         /\ resolved = Unsupported

\* C15 (as claimed): a call of Close returns and has released the client
\* connection.
C15_CloseReleases ==
  (closeSt = "running") ~> (closeSt = "returned" /\ ~connected)

\* C16 (as claimed): a Read that was called when table T held the three
\* records of a committed upsert has filled rsp with exactly these records.
C16_ReadReturnsUpserted ==
  (readRet /\ Cardinality(readSaw) = RecordsPerOp) => rsp = readSaw

\* C18: after New, a descriptor that contains "mongodb" has gone to the
\* document-store constructor, also when it contains "postgresql" too; the
\* relational constructor was called only for a descriptor that contains
\* "postgresql" and does not contain "mongodb".
C18_MongoTestedFirst ==
  resolved # Unresolved =>
    /\ Contains(dns, "mongodb") => resolved.ctor = "NewMongo"
    /\ resolved.ctor = "NewPostgres" =>
         (Contains(dns, "postgresql") /\ ~Contains(dns, "mongodb"))

\* New was called with a descriptor that contains both tokens, the
\* relational one first, and built the document-store adapter.
C18_Witness ==
  /\ resolved.adapter = "Mongo"
  /\ Len(dns) >= 3
  /\ dns[1] = "postgresql"
  /\ Contains(dns, "mongodb")

====
